---- MODULE Spec2Model ----
(***************************************************************************)
(* gperf2flamegraph: conversion of a gperftools CPU profile into folded    *)
(* flame-graph stacks.  The module models                                  *)
(*   - _parse_profiler_result           (gperf2flamegraph.py)              *)
(*   - SymbolResolver.__init__ / resolve_symbols_batch      (utils.py)     *)
(*   - _remove_matching_brackets / _cleanup_symbol          (utils.py)     *)
(*   - Gperf2Flamegraph.process and the __main__ block                     *)
(*   - FlamegraphData                                        (utils.py)    *)
(* Text is a sequence of Unicode code points, a file a sequence of bytes.  *)
(***************************************************************************)
EXTENDS Integers, Sequences, FiniteSets, TLC

VARIABLES
    file,                   \* bytes of the profile file (args.prof)
    pos,                    \* read offset of the open file object f
    pc,                     \* position of the program
    err,                    \* name of the exception that ended the run, or "none"
    sampling_period_in_us,  \* ProfilerResult.sampling_period_in_us
    stacktraces,            \* ProfilerResult.stacktraces
    proc_mapped_objects,    \* ProfilerResult.proc_mapped_objects
    opts,                   \* the command line: exe and the flags of argparse
    env,                    \* the file system and the external tools nm, readelf, flamegraph.pl
    objects,                \* SymbolResolver._objects
    mapLines,               \* lines of the memory map still to be visited by __init__
    pcs_to_symbols,         \* process: the dict returned by resolve_symbols_batch
    stacks,                 \* process: the folded-stack table, in insertion order
    foldIdx,                \* process: stacktraces already visited by the folding loop
    symbols,                \* process: the local list the fold key is joined from
    flamegraph,             \* the FlamegraphData returned by process (<<>> before)
    disk                    \* the output files: <<>> when absent, else <<content>>

parserVars == <<file, pos, pc, err, sampling_period_in_us, stacktraces, proc_mapped_objects>>
inputVars == <<opts, env>>
resolverVars == <<objects, mapLines>>
processVars == <<pcs_to_symbols, stacks, foldIdx, symbols>>
outputVars == <<flamegraph, disk>>

vars == <<parserVars, inputVars, resolverVars, processVars, outputVars>>

----------------------------------------------------------------------------
(* Bounds of the model.                                                    *)

\* longest record area (in 64-bit words) of a generated profile
MaxBody == 8
\* longest run of bytes that follows the generated words
MaxTail == 2
\* most lines of a generated memory map
MaxLines == 3
\* most mapped objects of a generated resolver
MaxObjs == 2
\* most symbols of a generated mapped object
MaxSyms == 3
\* longest generated symbol name
MaxName == 3
\* most program counters of a generated stack sample
MaxFrames == 3
\* most stack samples of a generated profile
MaxSamples == 2

----------------------------------------------------------------------------
(* Generic helpers.                                                        *)

Min(a, b) == IF a <= b THEN a ELSE b

SeqsUpTo(S, n) == UNION {[1..k -> S] : k \in 0..n}

RECURSIVE Flatten(_)
Flatten(ss) == IF ss = <<>> THEN <<>> ELSE Head(ss) \o Flatten(Tail(ss))

----------------------------------------------------------------------------
(* struct.pack / struct.unpack with format 'Q': unsigned 64-bit, native    *)
(* (little-endian on the supported platforms), no padding between slots.   *)

\* bytes per slot: f.read(8 * n)
WordSize == 8

RECURSIVE ToBytes(_, _)
ToBytes(w, n) == IF n = 0 THEN <<>> ELSE <<w % 256>> \o ToBytes(w \div 256, n - 1)

RECURSIVE FromBytes(_)
FromBytes(bs) == IF bs = <<>> THEN 0 ELSE Head(bs) + 256 * FromBytes(Tail(bs))

PackWords(ws) == Flatten([i \in 1..Len(ws) |-> ToBytes(ws[i], WordSize)])

\* f.read(size) at offset p: at most size bytes, fewer at the end of the file
FRead(f, p, size) ==
    IF p >= Len(f) \/ size <= 0 THEN <<>> ELSE SubSeq(f, p + 1, Min(Len(f), p + size))

\* an unpack that accepts a short buffer
UnpackAnyLength(f, p, n) == TRUE
\* struct.unpack('Q' * n, buffer) raises struct.error unless the buffer holds
\* exactly 8 * n bytes
UnpackOk(f, p, n) == Len(FRead(f, p, WordSize * n)) = WordSize * n

\* read_slots(n) at offset p
ReadSlots(f, p, n) ==
    [i \in 1..n |-> FromBytes(FRead(f, p + WordSize * (i - 1), WordSize))]

----------------------------------------------------------------------------
(* bytes.decode(): strict UTF-8.                                           *)

Utf8SeqLen(b) ==
    IF b < 128 THEN 1
    ELSE IF b >= 194 /\ b <= 223 THEN 2
    ELSE IF b >= 224 /\ b <= 239 THEN 3
    ELSE IF b >= 240 /\ b <= 244 THEN 4
    ELSE 0

IsCont(b) == b >= 128 /\ b <= 191

Utf8SecondOk(lead, b) ==
    /\ IsCont(b)
    /\ lead = 224 => b >= 160
    /\ lead = 237 => b <= 159
    /\ lead = 240 => b >= 144
    /\ lead = 244 => b <= 143

Utf8CodePoint(bs, i, n) ==
    CASE n = 1 -> bs[i]
      [] n = 2 -> (bs[i] - 192) * 64 + (bs[i+1] - 128)
      [] n = 3 -> (bs[i] - 224) * 4096 + (bs[i+1] - 128) * 64 + (bs[i+2] - 128)
      [] n = 4 -> (bs[i] - 240) * 262144 + (bs[i+1] - 128) * 4096
                    + (bs[i+2] - 128) * 64 + (bs[i+3] - 128)

RECURSIVE Utf8DecodeFrom(_, _)
Utf8DecodeFrom(bs, i) ==
    IF i > Len(bs) THEN [ok |-> TRUE, chars |-> <<>>]
    ELSE LET n == Utf8SeqLen(bs[i])
             wellFormed == /\ n > 0
                           /\ i + n - 1 <= Len(bs)
                           /\ n >= 2 => Utf8SecondOk(bs[i], bs[i+1])
                           /\ \A k \in 2..(n-1) : IsCont(bs[i+k])
         IN IF ~wellFormed THEN [ok |-> FALSE, chars |-> <<>>]
            ELSE LET rest == Utf8DecodeFrom(bs, i + n)
                 IN [ok |-> rest.ok,
                     chars |-> IF rest.ok THEN <<Utf8CodePoint(bs, i, n)>> \o rest.chars
                               ELSE <<>>]

Utf8Decode(bs) == Utf8DecodeFrom(bs, 1)

\* str.encode(), the inverse: used to state what a decoded text stands for
Utf8EncodeChar(c) ==
    IF c < 128 THEN <<c>>
    ELSE IF c < 2048 THEN <<192 + (c \div 64), 128 + (c % 64)>>
    ELSE IF c < 65536 THEN <<224 + (c \div 4096), 128 + ((c \div 64) % 64), 128 + (c % 64)>>
    ELSE <<240 + (c \div 262144), 128 + ((c \div 4096) % 64),
           128 + ((c \div 64) % 64), 128 + (c % 64)>>

Utf8Encode(cs) == Flatten([i \in 1..Len(cs) |-> Utf8EncodeChar(cs[i])])

----------------------------------------------------------------------------
(* _parse_profiler_result                                                  *)

HeaderSlots == 5

\* the assert on the header without the padding slot
HeaderValidNoPadding(h) == h[1] = 0 /\ h[2] = 3 /\ h[3] = 0
\* assert(header_count == 0 and header_slots == 3 and version == 0 and padding == 0)
HeaderValid(h) == h[1] = 0 /\ h[2] = 3 /\ h[3] = 0 /\ h[5] = 0

\* a Stacktrace as constructed by the parser: symbols is None
NoSymbols == [resolved |-> FALSE, names |-> <<>>]

\* a Stacktrace that drops the record's weight
StacktraceUnitWeight(sample_count, pcs) ==
    [sample_count |-> 1, pcs |-> pcs, symbols |-> NoSymbols]
Stacktrace(sample_count, pcs) ==
    [sample_count |-> sample_count, pcs |-> pcs, symbols |-> NoSymbols]

Raise(name) ==
    /\ pc' = "error"
    /\ err' = name

\* header_count, header_slots, version, sampling_period_in_us, padding = read_slots(5)
ReadHeader ==
    /\ pc = "parse_header"
    /\ IF ~UnpackOk(file, pos, HeaderSlots)
       THEN /\ Raise("struct.error")
            /\ pos' = Len(file)
            /\ UNCHANGED <<sampling_period_in_us, stacktraces, proc_mapped_objects>>
       ELSE LET h == ReadSlots(file, pos, HeaderSlots)
            IN /\ pos' = pos + WordSize * HeaderSlots
               /\ IF ~HeaderValid(h)
                  THEN /\ Raise("AssertionError")
                       /\ UNCHANGED <<sampling_period_in_us, stacktraces, proc_mapped_objects>>
                  ELSE /\ sampling_period_in_us' = h[4]
                       /\ proc_mapped_objects' = <<>>
                       /\ stacktraces' = <<>>
                       /\ pc' = "parse_record"
                       /\ UNCHANGED err
    /\ UNCHANGED file
    /\ UNCHANGED <<inputVars, resolverVars, processVars, outputVars>>

\* one iteration of the while True loop
ReadRecord ==
    /\ pc = "parse_record"
    /\ IF ~UnpackOk(file, pos, 2)
       THEN /\ Raise("struct.error")
            /\ pos' = Len(file)
            /\ UNCHANGED stacktraces
       ELSE LET hd == ReadSlots(file, pos, 2)
                sample_count == hd[1]
                num_pcs == hd[2]
                p == pos + WordSize * 2
            IN IF ~UnpackOk(file, p, num_pcs)
               THEN /\ Raise("struct.error")
                    /\ pos' = Len(file)
                    /\ UNCHANGED stacktraces
               ELSE LET pcs == ReadSlots(file, p, num_pcs)
                    IN /\ pos' = p + WordSize * num_pcs
                       /\ IF sample_count = 0
                          THEN /\ UNCHANGED stacktraces
                               /\ IF num_pcs = 1
                                  THEN pc' = "parse_text" /\ UNCHANGED err
                                  ELSE Raise("AssertionError")
                          ELSE /\ stacktraces' = Append(stacktraces, Stacktrace(sample_count, pcs))
                               /\ UNCHANGED <<pc, err>>
    /\ UNCHANGED <<file, sampling_period_in_us, proc_mapped_objects>>
    /\ UNCHANGED <<inputVars, resolverVars, processVars, outputVars>>

\* result.proc_mapped_objects = f.read().decode(); return result
ReadText ==
    /\ pc = "parse_text"
    /\ LET d == Utf8Decode(SubSeq(file, pos + 1, Len(file)))
       IN IF d.ok
          THEN /\ proc_mapped_objects' = d.chars
               /\ pc' = "build_resolver"
               /\ UNCHANGED err
          ELSE /\ Raise("UnicodeDecodeError")
               /\ UNCHANGED proc_mapped_objects
    /\ pos' = Len(file)
    /\ UNCHANGED <<file, sampling_period_in_us, stacktraces>>
    /\ UNCHANGED <<inputVars, resolverVars, processVars, outputVars>>

ParserNext == ReadHeader \/ ReadRecord \/ ReadText

\* _parse_profiler_result has returned its ProfilerResult
Parsed == pc = "build_resolver"

----------------------------------------------------------------------------
(* str: a sequence of code points.  Literals are written with S.           *)

\* the printable ASCII characters, chr(32) .. chr(126); the quote, the backslash
\* and the backtick are spelled out
Printable ==
    <<
      " ", "!", "(quote)", "#", "$", "%", "&", "'", "(", ")", "*", "+", ",", "-", ".", "/",
      "0", "1", "2", "3", "4", "5", "6", "7", "8", "9", ":", ";", "<", "=", ">", "?",
      "@", "A", "B", "C", "D", "E", "F", "G", "H", "I", "J", "K", "L", "M", "N", "O",
      "P", "Q", "R", "S", "T", "U", "V", "W", "X", "Y", "Z", "[", "(backslash)", "]", "^", "_",
      "(backtick)", "a", "b", "c", "d", "e", "f", "g", "h", "i", "j", "k", "l", "m", "n", "o",
      "p", "q", "r", "s", "t", "u", "v", "w", "x", "y", "z", "{", "|", "}", "~"
    >>

Ord(c) == IF c = "\n" THEN 10 ELSE 31 + CHOOSE i \in 1..Len(Printable) : Printable[i] = c

S(cs) == [i \in 1..Len(cs) |-> Ord(cs[i])]

\* str.isspace
IsSpace(c) ==
    c \in {9, 10, 11, 12, 13, 28, 29, 30, 31, 32, 133, 160, 5760, 8232, 8233, 8239, 8287, 12288}
               \cup 8192..8202

\* the line boundaries of str.splitlines
IsLineBreak(c) == c \in {10, 11, 12, 13, 28, 29, 30, 133, 8232, 8233}

RECURSIVE LStrip(_)
LStrip(s) == IF s # <<>> /\ IsSpace(Head(s)) THEN LStrip(Tail(s)) ELSE s

RECURSIVE RStrip(_)
RStrip(s) == IF s # <<>> /\ IsSpace(s[Len(s)]) THEN RStrip(SubSeq(s, 1, Len(s) - 1)) ELSE s

\* str.strip()
Strip(s) == LStrip(RStrip(s))

\* str.strip(chars) for a single character
RECURSIVE StripChar(_, _)
StripChar(s, c) ==
    IF s # <<>> /\ Head(s) = c THEN StripChar(Tail(s), c)
    ELSE IF s # <<>> /\ s[Len(s)] = c THEN StripChar(SubSeq(s, 1, Len(s) - 1), c)
    ELSE s

\* str.splitlines(): "\r\n" is one boundary, no empty last line
RECURSIVE SplitLinesFrom(_, _, _)
SplitLinesFrom(s, i, cur) ==
    IF i > Len(s) THEN (IF cur = <<>> THEN <<>> ELSE <<cur>>)
    ELSE IF s[i] = 13 /\ i < Len(s) /\ s[i + 1] = 10 THEN <<cur>> \o SplitLinesFrom(s, i + 2, <<>>)
    ELSE IF IsLineBreak(s[i]) THEN <<cur>> \o SplitLinesFrom(s, i + 1, <<>>)
    ELSE SplitLinesFrom(s, i + 1, Append(cur, s[i]))

SplitLines(s) == SplitLinesFrom(s, 1, <<>>)

\* the first whitespace-delimited word of s (s does not start with whitespace)
RECURSIVE FirstWord(_)
FirstWord(s) == IF s = <<>> \/ IsSpace(Head(s)) THEN <<>> ELSE <<Head(s)>> \o FirstWord(Tail(s))

\* str.split(None, maxsplit); maxsplit < 0 is str.split()
RECURSIVE SplitN(_, _)
SplitN(s, maxsplit) ==
    LET t == LStrip(s)
    IN IF t = <<>> THEN <<>>
       ELSE IF maxsplit = 0 THEN <<t>>
       ELSE LET w == FirstWord(t)
            IN <<w>> \o SplitN(SubSeq(t, Len(w) + 1, Len(t)), maxsplit - 1)

Split(s) == SplitN(s, -1)

\* str.split(sep, 1) for a single character sep
SplitOnce(s, sep) ==
    IF \E i \in 1..Len(s) : s[i] = sep
    THEN LET i == CHOOSE k \in 1..Len(s) : s[k] = sep /\ \A j \in 1..(k - 1) : s[j] # sep
         IN <<SubSeq(s, 1, i - 1), SubSeq(s, i + 1, Len(s))>>
    ELSE <<s>>

\* str.startswith
StartsWith(s, prefix) == Len(s) >= Len(prefix) /\ SubSeq(s, 1, Len(prefix)) = prefix

Contains(s, c) == \E i \in 1..Len(s) : s[i] = c

HexDigit(c) ==
    IF c >= 48 /\ c <= 57 THEN c - 48
    ELSE IF c >= 97 /\ c <= 102 THEN c - 87
    ELSE IF c >= 65 /\ c <= 70 THEN c - 55
    ELSE -1

RECURSIVE HexDigits(_)
HexDigits(s) == IF s = <<>> THEN 0 ELSE 16 * HexDigits(SubSeq(s, 1, Len(s) - 1)) + HexDigit(s[Len(s)])

\* int(s, 16): an optional sign, an optional 0x prefix, then hexadecimal digits;
\* anything else is a ValueError (digit-group underscores are not modelled)
HexInt(s) ==
    LET neg == s # <<>> /\ Head(s) = 45
        u == IF s # <<>> /\ Head(s) \in {43, 45} THEN Tail(s) ELSE s
        d == IF Len(u) >= 2 /\ u[1] = 48 /\ u[2] \in {88, 120} THEN SubSeq(u, 3, Len(u)) ELSE u
        ok == d # <<>> /\ \A i \in 1..Len(d) : HexDigit(d[i]) >= 0
    IN [ok |-> ok, value |-> IF ~ok THEN 0 ELSE IF neg THEN 0 - HexDigits(d) ELSE HexDigits(d)]

\* pathlib.PurePath.name: the last component of the path
PathName(p) ==
    LET q == IF Len(p) > 1 /\ p[Len(p)] = 47 THEN SubSeq(p, 1, Len(p) - 1) ELSE p
        cut == {i \in 1..Len(q) : q[i] = 47}
        last == IF cut = {} THEN 0 ELSE CHOOSE i \in cut : \A j \in cut : j <= i
    IN SubSeq(q, last + 1, Len(q))

----------------------------------------------------------------------------
(* utils.py: the symbol table and the code section of a mapped object.     *)

\* result of an external call or of a parse: a value, or the exception raised
Ok(v) == [err |-> "none", value |-> v]
Fail(name) == [err |-> name, value |-> <<>>]

\* Symbol(address, symbol); _cleaned_symbol is None (<<>>) or <<the string>>
Symbol(address, symbol) == [address |-> address, symbol |-> symbol, cleaned |-> <<>>]

\* the values of results, or the first exception among them
AllOk(results) ==
    IF \E i \in 1..Len(results) : results[i].err # "none"
    THEN results[CHOOSE i \in 1..Len(results) :
                    /\ results[i].err # "none"
                    /\ \A j \in 1..(i - 1) : results[j].err = "none"]
    ELSE Ok([i \in 1..Len(results) |-> results[i].value])

\* int(fields[i], 16) for the i-th field, counted from 1
IntField(fields, i) ==
    IF Len(fields) < i THEN Fail("IndexError")
    ELSE IF ~HexInt(fields[i]).ok THEN Fail("ValueError")
    ELSE Ok(HexInt(fields[i]).value)

\* symbol = fields[2]; Symbol(int(fields[0], 16), symbol)
NmFields(fields) ==
    IF Len(fields) < 3 THEN Fail("IndexError")
    ELSE IF ~HexInt(fields[1]).ok THEN Fail("ValueError")
    ELSE Ok(Symbol(HexInt(fields[1]).value, fields[3]))

\* one line of nm's output: fields = line.rstrip().split(None, 2)
NmLine(line) == NmFields(SplitN(RStrip(line), 2))

\* the for loop over proc_output.splitlines()
NmLines(lines) == AllOk([i \in 1..Len(lines) |-> NmLine(lines[i])])

\* sorted(result, key=lambda x: x.address): stable
RECURSIVE SortedByAddress(_)
SortedByAddress(syms) ==
    IF syms = <<>> THEN <<>>
    ELSE LET last == syms[Len(syms)]
             init == SortedByAddress(SubSeq(syms, 1, Len(syms) - 1))
             k == Cardinality({i \in 1..Len(init) : init[i].address <= last.address})
         IN SubSeq(init, 1, k) \o <<last>> \o SubSeq(init, k + 1, Len(init))

\* result = sorted(result, ...) once every line is parsed
SortedSymbols(result) ==
    IF result.err # "none" THEN result ELSE Ok(SortedByAddress(result.value))

\* the for loop over ([], ['-D']): static and dynamic are the two runs of nm,
\* each with whether it exited with 0 and what it printed
NmOutput(static, dynamic) ==
    IF ~static.ok THEN Fail("CalledProcessError")
    ELSE IF Strip(static.stdout) # <<>> THEN Ok(static.stdout)
    ELSE IF ~dynamic.ok THEN Fail("CalledProcessError")
    ELSE IF Strip(dynamic.stdout) # <<>> THEN Ok(dynamic.stdout)
    ELSE Ok(<<>>)

SymbolsOf(proc_output) ==
    IF proc_output.err # "none" THEN proc_output
    ELSE SortedSymbols(NmLines(SplitLines(proc_output.value)))

\* _find_object_all_symbols_sorted: nm, then nm -D when nm printed nothing;
\* env.nm[path] holds the two runs
FindObjectAllSymbolsSorted(path) == SymbolsOf(NmOutput(env.nm[path][1], env.nm[path][2]))

\* _find_object_start_vma_before_linked: readelf -W -S; env.readelf[path] holds
\* whether readelf exited with 0 and the address and offset of the .text
\* PROGBITS line the regular expression finds in its output (<<>> when none)
FindObjectStartVmaBeforeLinked(path) ==
    LET r == env.readelf[path]
    IN IF ~r.ok THEN Fail("CalledProcessError")
       ELSE IF r.text = <<>> THEN Ok(0)
       ELSE Ok(r.text[1] - r.text[2])

----------------------------------------------------------------------------
(* SymbolResolver.__init__                                                 *)

BuildMarker == S(<<"b", "u", "i", "l", "d", "=">>)

\* SymbolResolver.MappedObject
MappedObject(start, end, offset, path, is_exe, syms, vma) ==
    [start_address |-> start, end_address |-> end, offset |-> offset,
     obj_path |-> path, is_executable |-> is_exe,
     all_symbols_sorted |-> syms,
     all_addrs_sorted |-> [i \in 1..Len(syms) |-> syms[i].address],
     obj_start_vma |-> vma]

\* what the body of the for loop does with one line: continue, append a
\* MappedObject, or raise
Continue == [kind |-> "skip", err |-> "none", obj |-> <<>>]
Appends(obj) == [kind |-> "append", err |-> "none", obj |-> obj]
Raises(name) == [kind |-> "raise", err |-> name, obj |-> <<>>]

\* self._objects.append(self.MappedObject(...)): the symbols are read first,
\* then the arguments are evaluated in the order they are written
AppendObject(syms, start, end, offset, obj_path, is_executable, vma) ==
    IF syms.err # "none" THEN Raises(syms.err)
    ELSE IF start.err # "none" THEN Raises(start.err)
    ELSE IF end.err # "none" THEN Raises(end.err)
    ELSE IF offset.err # "none" THEN Raises(offset.err)
    ELSE IF vma.err # "none" THEN Raises(vma.err)
    ELSE Appends(MappedObject(start.value, end.value, offset.value, obj_path,
                              is_executable, syms.value, vma.value))

\* the two filters on the object file, then the append
MapObject(fields, addr_fileds, is_executable, obj_path) ==
    IF opts.executable_only /\ ~is_executable THEN Continue
    ELSE IF obj_path \notin env.fs THEN Continue
    ELSE AppendObject(FindObjectAllSymbolsSorted(obj_path),
                      IntField(addr_fileds, 1), IntField(addr_fileds, 2),
                      IntField(fields, 3), obj_path, is_executable,
                      FindObjectStartVmaBeforeLinked(obj_path))

\* is_executable = obj_path.name == executable.name; obj_path = executable
MapPath(fields, addr_fileds, is_executable) ==
    MapObject(fields, addr_fileds, is_executable,
              IF is_executable THEN opts.exe ELSE fields[6])

\* addr_fileds = fields[0].split('-', 1) comes before the fields are counted
MapFields(fields) ==
    IF fields = <<>> THEN Raises("IndexError")
    ELSE IF Len(fields) # 6 \/ ~Contains(fields[2], Ord("x")) THEN Continue
    ELSE MapPath(fields, SplitOnce(fields[1], Ord("-")),
                 PathName(fields[6]) = PathName(opts.exe))

\* the body of the for loop for one line
MapLine(line) ==
    IF StartsWith(line, BuildMarker) THEN Continue
    ELSE MapFields(Split(Strip(line)))

\* self._objects = []; the lines of proc_mapped_objects.strip().splitlines()
BeginResolver ==
    /\ pc = "build_resolver"
    /\ objects' = <<>>
    /\ mapLines' = SplitLines(Strip(proc_mapped_objects))
    /\ pc' = "map_line"
    /\ UNCHANGED <<file, pos, err, sampling_period_in_us, stacktraces, proc_mapped_objects>>
    /\ UNCHANGED <<inputVars, processVars, outputVars>>

\* one iteration of the for loop over the lines
VisitMapLine ==
    /\ pc = "map_line"
    /\ mapLines # <<>>
    /\ \E r \in {MapLine(Head(mapLines))} :
          /\ objects' = IF r.kind = "append" THEN Append(objects, r.obj) ELSE objects
          /\ IF r.kind = "raise" THEN Raise(r.err) ELSE UNCHANGED <<pc, err>>
    /\ mapLines' = Tail(mapLines)
    /\ UNCHANGED <<file, pos, sampling_period_in_us, stacktraces, proc_mapped_objects>>
    /\ UNCHANGED <<inputVars, processVars, outputVars>>

\* the loop is over: the SymbolResolver is constructed
EndResolver ==
    /\ pc = "map_line"
    /\ mapLines = <<>>
    /\ pc' = "resolve"
    /\ UNCHANGED <<file, pos, err, sampling_period_in_us, stacktraces, proc_mapped_objects>>
    /\ UNCHANGED <<inputVars, resolverVars, processVars, outputVars>>

ResolverNext == BeginResolver \/ VisitMapLine \/ EndResolver

----------------------------------------------------------------------------
(* utils.py: _remove_matching_brackets, _cleanup_symbol, simplified_symbol *)

\* the for loop of _remove_matching_brackets from character i on.  On begin
\* the code evaluates the comparison depth == 1 and continues: depth is not
\* changed.  On end it decrements depth.
RECURSIVE RemoveLoop(_, _, _, _, _, _)
RemoveLoop(s, begin, end, i, depth, result) ==
    IF i > Len(s) THEN result
    ELSE IF s[i] = begin THEN RemoveLoop(s, begin, end, i + 1, depth, result)
    ELSE IF s[i] = end THEN RemoveLoop(s, begin, end, i + 1, depth - 1, result)
    ELSE RemoveLoop(s, begin, end, i + 1, depth,
                    IF depth = 0 THEN Append(result, s[i]) ELSE result)

RemoveMatchingBrackets(s, begin, end) == RemoveLoop(s, begin, end, 1, 0, <<>>)

CleanupSymbol(s) ==
    LET s1 == RemoveMatchingBrackets(s, Ord("("), Ord(")"))
        s2 == RemoveMatchingBrackets(s1, Ord("["), Ord("]"))
        s3 == RemoveMatchingBrackets(s2, Ord("<"), Ord(">"))
    IN StripChar(s3, Ord(":"))

\* Symbol.simplified_symbol: the value returned
SimplifiedSymbol(sym) ==
    IF sym.cleaned = <<>> THEN CleanupSymbol(sym.symbol) ELSE sym.cleaned[1]

----------------------------------------------------------------------------
(* SymbolResolver.resolve_symbols_batch                                    *)

\* a search that stops at the first entry equal to x
RECURSIVE BisectLeftLoop(_, _, _, _)
BisectLeftLoop(a, x, lo, hi) ==
    IF lo < hi
    THEN LET mid == (lo + hi) \div 2
         IN IF a[mid + 1] < x THEN BisectLeftLoop(a, x, mid + 1, hi)
            ELSE BisectLeftLoop(a, x, lo, mid)
    ELSE lo

BisectLeft(a, x) == BisectLeftLoop(a, x, 0, Len(a))

\* bisect.bisect_right(a, x): the index after the last entry <= x
RECURSIVE BisectRightLoop(_, _, _, _)
BisectRightLoop(a, x, lo, hi) ==
    IF lo < hi
    THEN LET mid == (lo + hi) \div 2
         IN IF x < a[mid + 1] THEN BisectRightLoop(a, x, lo, mid)
            ELSE BisectRightLoop(a, x, mid + 1, hi)
    ELSE lo

BisectRight(a, x) == BisectRightLoop(a, x, 0, Len(a))

\* addr_before_linked = pc - obj.start_address + obj.offset + obj.obj_start_vma
AddrBeforeLinked(obj, p) == p - obj.start_address + obj.offset + obj.obj_start_vma

\* idx = bisect.bisect_right(obj.all_addrs_sorted, addr_before_linked) - 1
SymbolIndex(obj, p) == BisectRight(obj.all_addrs_sorted, AddrBeforeLinked(obj, p)) - 1

\* the body of the inner loop reaches result[pc] = sym_str
Resolves(obj, p) ==
    /\ obj.start_address <= p
    /\ p < obj.end_address
    /\ 0 <= SymbolIndex(obj, p)
    /\ SymbolIndex(obj, p) < Len(obj.all_symbols_sorted)

\* sym_str for the pc
SymStr(obj, p) ==
    LET sym == obj.all_symbols_sorted[SymbolIndex(obj, p) + 1]
        name == IF opts.simplify_symbol THEN SimplifiedSymbol(sym) ELSE sym.symbol
    IN IF opts.annotate_libname /\ ~obj.is_executable
       THEN name \o S(<<" ", "[">>) \o PathName(obj.obj_path) \o S(<<"]">>)
       ELSE name

\* result after the outer loop has visited the first k objects: a later
\* object overwrites the entry an earlier one made for the same pc
RECURSIVE ResolveSymbolsBatch(_, _, _)
ResolveSymbolsBatch(objs, pcs, k) ==
    IF k = 0 THEN <<>>
    ELSE LET before == ResolveSymbolsBatch(objs, pcs, k - 1)
             here == {p \in pcs : Resolves(objs[k], p)}
         IN [p \in (DOMAIN before) \cup here |->
                IF p \in here THEN SymStr(objs[k], p) ELSE before[p]]

\* the objects after the call: simplified_symbol has cached _cleaned_symbol in
\* every Symbol it was called on
CachedObjects(objs, pcs) ==
    [k \in 1..Len(objs) |->
        LET obj == objs[k]
            used == {SymbolIndex(obj, p) + 1 : p \in {q \in pcs : Resolves(obj, q)}}
        IN [obj EXCEPT !.all_symbols_sorted =
                [i \in 1..Len(obj.all_symbols_sorted) |->
                    LET sym == obj.all_symbols_sorted[i]
                    IN IF opts.simplify_symbol /\ i \in used
                       THEN [sym EXCEPT !.cleaned = <<SimplifiedSymbol(sym)>>]
                       ELSE sym]]]

----------------------------------------------------------------------------
(* Gperf2Flamegraph.process, after the parser and the resolver             *)

UNKNOWN_SYMBOL == S(<<"?", "?", "?">>)

\* all_pcs = set(pc for stacktrace in profiler_result.stacktraces for pc in stacktrace.pcs)
AllPcs ==
    UNION {{stacktraces[i].pcs[j] : j \in 1..Len(stacktraces[i].pcs)} :
              i \in 1..Len(stacktraces)}

\* pcs_to_symbols = resolve_symbols_batch(all_pcs, ...), then
\* stacktrace.symbols.append(pcs_to_symbols.get(pc, _UNKNOWN_SYMBOL)) for
\* every pc of every stacktrace
ResolveSymbols ==
    /\ pc = "resolve"
    /\ LET result == ResolveSymbolsBatch(objects, AllPcs, Len(objects))
       IN /\ pcs_to_symbols' = result
          /\ objects' = CachedObjects(objects, AllPcs)
          /\ stacktraces' =
                [i \in 1..Len(stacktraces) |->
                    [stacktraces[i] EXCEPT !.symbols =
                        [resolved |-> TRUE,
                         names |-> [j \in 1..Len(stacktraces[i].pcs) |->
                                      IF stacktraces[i].pcs[j] \in DOMAIN result
                                      THEN result[stacktraces[i].pcs[j]]
                                      ELSE UNKNOWN_SYMBOL]]]]
    /\ stacks' = <<>>
    /\ foldIdx' = 0
    /\ pc' = "fold"
    /\ UNCHANGED <<file, pos, err, sampling_period_in_us, proc_mapped_objects>>
    /\ UNCHANGED <<inputVars, mapLines, symbols, outputVars>>

Reverse(s) == [i \in 1..Len(s) |-> s[Len(s) + 1 - i]]

\* a loop that pops while any frame is left
RECURSIVE TrimAllUnknown(_)
TrimAllUnknown(syms) ==
    IF Len(syms) > 0 /\ syms[Len(syms)] = UNKNOWN_SYMBOL
    THEN TrimAllUnknown(SubSeq(syms, 1, Len(syms) - 1))
    ELSE syms

\* while len(symbols) > 1 and symbols[-1] == _UNKNOWN_SYMBOL: symbols.pop()
RECURSIVE TrimUnknown(_)
TrimUnknown(syms) ==
    IF Len(syms) > 1 /\ syms[Len(syms)] = UNKNOWN_SYMBOL
    THEN TrimUnknown(SubSeq(syms, 1, Len(syms) - 1))
    ELSE syms

RECURSIVE Join(_, _)
Join(strs, sep) ==
    IF strs = <<>> THEN <<>>
    ELSE IF Len(strs) = 1 THEN strs[1]
    ELSE strs[1] \o sep \o Join(Tail(strs), sep)

\* a weight that ignores the time unit
SampleCountOnly(sample_count) == sample_count
\* sample_count * sampling_period_in_us if to_microsecond else sample_count
Weight(sample_count) ==
    IF opts.to_microsecond THEN sample_count * sampling_period_in_us ELSE sample_count

\* stacks[key] += amount on a defaultdict(lambda: 0)
Accumulate(table, key, amount) ==
    IF \E i \in 1..Len(table) : table[i].key = key
    THEN LET i == CHOOSE k \in 1..Len(table) : table[k].key = key
         IN [table EXCEPT ![i].count = @ + amount]
    ELSE Append(table, [key |-> key, count |-> 0 + amount])

\* one iteration of the loop "for stacktrace in profiler_result.stacktraces"
FoldStack ==
    /\ pc = "fold"
    /\ foldIdx < Len(stacktraces)
    /\ LET stacktrace == stacktraces[foldIdx + 1]
       IN IF stacktrace.symbols.names = <<>>
          THEN UNCHANGED <<symbols, stacks>>
          ELSE LET trimmed == TrimUnknown(Reverse(stacktrace.symbols.names))
               IN /\ symbols' = trimmed
                  /\ stacks' = Accumulate(stacks, Join(trimmed, S(<<";">>)),
                                          Weight(stacktrace.sample_count))
    /\ foldIdx' = foldIdx + 1
    /\ UNCHANGED <<parserVars, inputVars, resolverVars, pcs_to_symbols, outputVars>>

----------------------------------------------------------------------------
(* utils.py: FlamegraphData, and the __main__ block                        *)

\* f'{c}' for a count
RECURSIVE Decimal(_)
Decimal(n) == IF n < 10 THEN <<48 + n>> ELSE Decimal(n \div 10) \o <<48 + (n % 10)>>

\* '\n'.join(f'{s} {c}' for s, c in stacks.items()) + '\n'
FoldedText(table) ==
    Join([i \in 1..Len(table) |-> table[i].key \o S(<<" ">>) \o Decimal(table[i].count)],
         S(<<"\n">>)) \o S(<<"\n">>)

CountNameArgs ==
    <<S(<<"-", "-", "c", "o", "u", "n", "t", "n", "a", "m", "e">>), S(<<"u", "s">>)>>

\* return FlamegraphData(stacks, default_flamegraph_args=...)
MakeFlamegraphData ==
    /\ pc = "fold"
    /\ foldIdx = Len(stacktraces)
    /\ flamegraph' = <<[default_flamegraph_args |->
                            IF opts.to_microsecond THEN CountNameArgs ELSE <<>>,
                        data |-> FoldedText(stacks)]>>
    /\ pc' = "write_text"
    /\ UNCHANGED <<file, pos, err, sampling_period_in_us, stacktraces, proc_mapped_objects>>
    /\ UNCHANGED <<inputVars, resolverVars, processVars, disk>>

\* if args.text_output: res.write_text_output(Path(args.text_output))
WriteTextOutput ==
    /\ pc = "write_text"
    /\ disk' = IF opts.text_output THEN [disk EXCEPT !.text = <<flamegraph[1].data>>] ELSE disk
    /\ pc' = "write_svg"
    /\ UNCHANGED <<file, pos, err, sampling_period_in_us, stacktraces, proc_mapped_objects>>
    /\ UNCHANGED <<inputVars, resolverVars, processVars, flamegraph>>

\* what flamegraph.pl has written to its stdout: "all" of the rendering of
\* data under args, "part" of it, or "nothing"
Svg(written) ==
    [written |-> written, args |-> flamegraph[1].default_flamegraph_args,
     input |-> flamegraph[1].data]

\* if args.svg_output: res.write_svg_ouput(Path(args.svg_output)).  The
\* output file is opened for writing, which creates or empties it, before
\* flamegraph.pl is started; check=True raises when it exits with a failure.
WriteSvgOutput ==
    /\ pc = "write_svg"
    /\ IF ~opts.svg_output
       THEN /\ pc' = "exit"
            /\ UNCHANGED <<err, disk>>
       ELSE \/ /\ env.render = "ok"
               /\ disk' = [disk EXCEPT !.svg = <<Svg("all")>>]
               /\ pc' = "exit"
               /\ UNCHANGED err
            \/ /\ env.render = "missing"
               /\ disk' = [disk EXCEPT !.svg = <<Svg("nothing")>>]
               /\ Raise("FileNotFoundError")
            \/ /\ env.render = "fails"
               /\ \E written \in {"nothing", "part", "all"} :
                     disk' = [disk EXCEPT !.svg = <<Svg(written)>>]
               /\ Raise("CalledProcessError")
    /\ UNCHANGED <<file, pos, sampling_period_in_us, stacktraces, proc_mapped_objects>>
    /\ UNCHANGED <<inputVars, resolverVars, processVars, flamegraph>>

ProcessNext == ResolveSymbols \/ FoldStack \/ MakeFlamegraphData

Next ==
    \/ ReadHeader \/ ReadRecord \/ ReadText
    \/ BeginResolver \/ VisitMapLine \/ EndResolver
    \/ ResolveSymbols \/ FoldStack \/ MakeFlamegraphData
    \/ WriteTextOutput \/ WriteSvgOutput

----------------------------------------------------------------------------
(* Profile files given to the parser.                                      *)

ValidHeader(period) == <<0, 3, 0, period, 0>>

HeaderVariants ==
    {<<c, s, v, p, d>> : c \in {0, 1}, s \in {3, 2}, v \in {0, 1}, p \in {1000, 0}, d \in {0, 1}}

BodyWords == 0..2
TailBytes == {10, 97, 195, 169}

\* every word stream after a valid header
StreamFiles ==
    {PackWords(ValidHeader(1000) \o body) : body \in SeqsUpTo(BodyWords, MaxBody)}

\* an empty profile and a two-sample profile
PlainBodies == {<<0, 1, 2>>, <<1, 1, 2, 2, 2, 1, 2, 0, 1, 0>>}

\* every header, followed by a plain profile
HeaderFiles == {PackWords(h \o body) : h \in HeaderVariants, body \in PlainBodies \cup {<<>>}}

\* a plain profile followed by every run of text bytes
TextFiles ==
    {PackWords(ValidHeader(1000) \o body) \o t :
        body \in PlainBodies, t \in SeqsUpTo(TailBytes, MaxTail)}

\* record areas that are exactly samples (weight > 0) followed by one trailer
RECURSIVE SampleAreas(_)
SampleAreas(n) ==
    IF n < 2 THEN {<<>>}
    ELSE {<<>>} \cup
         UNION {{<<w, Len(pcs)>> \o pcs \o rest : rest \in SampleAreas(n - 2 - Len(pcs))} :
                    w \in BodyWords \ {0},
                    pcs \in {q \in SeqsUpTo(BodyWords, Min(2, n - 2)) : Len(q) \in BodyWords}}

ValidBodies == {s \o <<0, 1, t>> : s \in SampleAreas(MaxBody - 3), t \in BodyWords}

\* every prefix of a valid profile that ends before the trailer's program
\* counter has been read completely
TruncatedFiles ==
    UNION {{SubSeq(PackWords(ValidHeader(1000) \o body), 1, n) :
                n \in 0..(WordSize * (HeaderSlots + Len(body)) - 1)} : body \in ValidBodies}

\* args: the executable "e", the four flags, and whether --text-output and
\* --svg-output are given
Opts(executable_only, simplify_symbol, annotate_libname, to_microsecond, text_output, svg_output) ==
    [exe |-> S(<<"e">>), executable_only |-> executable_only,
     simplify_symbol |-> simplify_symbol, annotate_libname |-> annotate_libname,
     to_microsecond |-> to_microsecond,
     text_output |-> text_output, svg_output |-> svg_output]

\* a command line and an environment that no action of the parser reads
DefaultOpts == Opts(FALSE, FALSE, FALSE, FALSE, TRUE, FALSE)
DefaultEnv == [fs |-> {}, nm |-> <<>>, readelf |-> <<>>, render |-> "ok"]

ParseInit(files) ==
    /\ file \in files
    /\ objects = <<>>
    /\ mapLines = <<>>
    /\ pcs_to_symbols = <<>>
    /\ stacks = <<>>
    /\ foldIdx = 0
    /\ symbols = <<>>
    /\ flamegraph = <<>>
    /\ disk = [text |-> <<>>, svg |-> <<>>]
    /\ pos = 0
    /\ pc = "parse_header"
    /\ err = "none"
    /\ sampling_period_in_us = 0
    /\ stacktraces = <<>>
    /\ proc_mapped_objects = <<>>

InitParse ==
    /\ ParseInit(StreamFiles \cup HeaderFiles \cup TextFiles \cup TruncatedFiles)
    /\ opts = DefaultOpts
    /\ env = DefaultEnv

SpecParse == InitParse /\ [][ParserNext]_vars

----------------------------------------------------------------------------
(* Memory maps given to SymbolResolver.__init__.                           *)

ExePath == S(<<"e">>)
LibPath == S(<<"l">>)
GonePath == S(<<"m">>)

\* start-end perms offset dev inode path
MapLineOf(range, perms, path) ==
    Join(<<range, perms, S(<<"0">>), S(<<"d">>), S(<<"i">>)>> \o path, S(<<" ">>))

Range13 == S(<<"1", "0", "-", "3", "0">>)
Range46 == S(<<"4", "0", "-", "6", "0">>)
PermsExec == S(<<"r", "-", "x", "p">>)
PermsData == S(<<"r", "w", "-", "p">>)

MapLineTemplates ==
    { MapLineOf(Range13, PermsExec, <<ExePath>>),            \* the executable
      MapLineOf(Range46, PermsExec, <<LibPath>>),            \* a readable library
      MapLineOf(Range46, PermsExec, <<GonePath>>),           \* a file that is gone
      MapLineOf(Range13, PermsData, <<ExePath>>),            \* not executable
      MapLineOf(Range46, PermsExec, <<>>),                   \* anonymous: 5 fields
      MapLineOf(Range46, PermsExec, <<LibPath, S(<<"(", "d", ")">>)>>),  \* 7 fields
      BuildMarker \o S(<<"1", "f">>),                        \* build=1f
      S(<<" ">>),                                            \* whitespace only
      <<>> }                                                 \* empty

MapTexts == {Join(ls, S(<<"\n">>)) : ls \in SeqsUpTo(MapLineTemplates, MaxLines)}

NmRun(ok, lines) == [ok |-> ok, stdout |-> Flatten([i \in 1..Len(lines) |-> lines[i] \o S(<<"\n">>)])]

\* nm prints two symbols for the executable; for the library nothing, and
\* one symbol with -D.  readelf finds .text at 0x40/0x10 in the executable and
\* no .text in the library.
HealthyEnv ==
    [fs |-> {ExePath, LibPath},
     nm |-> (ExePath :> <<NmRun(TRUE, <<S(<<"2", "0", " ", "T", " ", "f">>),
                                       S(<<"1", "0", " ", "T", " ", "g">>)>>),
                         NmRun(TRUE, <<>>)>>)
         @@ (LibPath :> <<NmRun(TRUE, <<>>), NmRun(TRUE, <<S(<<"5", " ", "T", " ", "h">>)>>)>>),
     readelf |-> (ExePath :> [ok |-> TRUE, text |-> <<64, 16>>])
              @@ (LibPath :> [ok |-> TRUE, text |-> <<>>]),
     render |-> "ok"]

InitMap ==
    /\ file = <<>>
    /\ pos = 0
    /\ pc = "build_resolver"
    /\ err = "none"
    /\ sampling_period_in_us = 1000
    /\ stacktraces = <<>>
    /\ proc_mapped_objects \in MapTexts
    /\ opts \in {Opts(b, FALSE, FALSE, FALSE, TRUE, FALSE) : b \in BOOLEAN}
    /\ env = HealthyEnv
    /\ objects = <<>>
    /\ mapLines = <<>>
    /\ pcs_to_symbols = <<>>
    /\ stacks = <<>>
    /\ foldIdx = 0
    /\ symbols = <<>>
    /\ flamegraph = <<>>
    /\ disk = [text |-> <<>>, svg |-> <<>>]

SpecMap == InitMap /\ [][ResolverNext]_vars

----------------------------------------------------------------------------
(* Resolvers given to resolve_symbols_batch.                               *)

\* the i-th symbol name: sA, sB, sC, ...
NameOf(i) == S(<<"s">>) \o <<64 + i>>

\* the symbols of an object file: addresses ascending, equal addresses allowed
SymAddrs == {1, 3}
SymLists ==
    {[i \in 1..Len(as) |-> Symbol(as[i], NameOf(i))] :
        as \in {a \in SeqsUpTo(SymAddrs, MaxSyms) : \A i \in 1..(Len(a) - 1) : a[i] <= a[i + 1]}}

\* three regions that do not overlap: [0,3) maps to 0..2, [3,6) to -1..1 and
\* [6,8) to 3..4 in the address space of the object file
RegionsWith(syms) ==
    { MappedObject(0, 3, 0, ExePath, TRUE, syms, 0),
      MappedObject(3, 6, 1, LibPath, FALSE, syms, -2),
      MappedObject(6, 8, 3, LibPath, FALSE, syms, 0) }

Regions == UNION {RegionsWith(syms) : syms \in SymLists}

Overlap(a, b) == a.start_address < b.end_address /\ b.start_address < a.end_address

NonOverlapping(objs) ==
    \A i, j \in 1..Len(objs) : i # j => ~Overlap(objs[i], objs[j])

RECURSIVE ObjectLists(_)
ObjectLists(n) ==
    IF n = 0 THEN {<<>>}
    ELSE LET shorter == ObjectLists(n - 1)
         IN shorter \cup {Append(objs, r) : objs \in shorter, r \in Regions}

ResolvePcs == <<0, 1, 2, 3, 4, 5, 6, 7, 8>>

ProcessInit(objs, sts, os) ==
    /\ file = <<>>
    /\ pos = 0
    /\ pc = "resolve"
    /\ err = "none"
    /\ sampling_period_in_us = 1000
    /\ stacktraces \in sts
    /\ proc_mapped_objects = <<>>
    /\ opts \in os
    /\ env = HealthyEnv
    /\ objects \in objs
    /\ mapLines = <<>>
    /\ pcs_to_symbols = <<>>
    /\ stacks = <<>>
    /\ foldIdx = 0
    /\ symbols = <<>>
    /\ flamegraph = <<>>
    /\ disk = [text |-> <<>>, svg |-> <<>>]

InitResolve ==
    ProcessInit({objs \in ObjectLists(MaxObjs) : NonOverlapping(objs)},
                {<<Stacktrace(1, ResolvePcs)>>},
                {Opts(FALSE, FALSE, a, FALSE, TRUE, FALSE) : a \in BOOLEAN})

SpecResolve == InitResolve /\ [][ResolveSymbols]_vars

----------------------------------------------------------------------------
(* Symbol names given to simplified_symbol.                                *)

NameChars == {Ord(c) : c \in {"f", ":", "(", ")", "[", "]", "<", ">"}}

InitCleanup ==
    ProcessInit({<<MappedObject(0, 1, 0, ExePath, TRUE, <<Symbol(0, name)>>, 0)>> :
                    name \in SeqsUpTo(NameChars, MaxName)},
                {<<Stacktrace(1, <<0>>)>>},
                {Opts(FALSE, s, FALSE, FALSE, TRUE, FALSE) : s \in BOOLEAN})

SpecCleanup == InitCleanup /\ [][ResolveSymbols]_vars

----------------------------------------------------------------------------
(* Stack samples given to process.                                         *)

\* one region [10,20) at file offset 10 with sA at 11, sB at 12, sC at 13, ...: pc 10 lies in
\* the region below its first symbol, pc 5 lies outside the region
FoldObjects ==
    <<MappedObject(10, 20, 10, ExePath, TRUE,
                   [i \in 1..(MaxFrames + 1) |-> Symbol(10 + i, NameOf(i))], 0)>>

PcLists ==
    SeqsUpTo({11, 5}, MaxFrames)
        \cup {[i \in 1..k |-> 10 + i] : k \in 2..MaxFrames}
        \cup {<<10, 12>>}

\* the weight of the i-th sample
SampleWeights == <<5, 1, 5, 2>>

SampleLists ==
    {[i \in 1..Len(ps) |-> Stacktrace(SampleWeights[i], ps[i])] :
        ps \in SeqsUpTo(PcLists, MaxSamples)}

InitProcess ==
    ProcessInit({FoldObjects}, SampleLists,
                {Opts(FALSE, FALSE, FALSE, us, TRUE, FALSE) : us \in BOOLEAN})

SpecProcess == InitProcess /\ [][ProcessNext]_vars

----------------------------------------------------------------------------
(* Runs of the command line.                                               *)

TwoLineMap ==
    Join(<<MapLineOf(Range13, PermsExec, <<ExePath>>),
           MapLineOf(Range46, PermsExec, <<LibPath>>)>>, S(<<"\n">>)) \o S(<<"\n">>)

\* two samples, the trailer, the memory map
ProfileFile(header) ==
    PackWords(header \o <<5, 2, 18, 65, 1, 1, 65, 0, 1, 0>>) \o Utf8Encode(TwoLineMap)

MainFiles ==
    { ProfileFile(ValidHeader(1000)),
      ProfileFile(<<0, 3, 1, 1000, 0>>),                        \* version 1
      SubSeq(ProfileFile(ValidHeader(1000)), 1, 60) }           \* cut in a sample

\* nm or readelf may exit with a failure on the library
MainEnvs ==
    {[HealthyEnv EXCEPT !.nm[LibPath][2].ok = nmOk,
                        !.readelf[LibPath].ok = readelfOk,
                        !.render = render] :
        nmOk \in BOOLEAN, readelfOk \in BOOLEAN, render \in {"ok", "missing", "fails"}}

Init ==
    /\ ParseInit(MainFiles)
    /\ opts \in {Opts(x, s, a, us, t, g) :
                    x \in BOOLEAN, s \in BOOLEAN, a \in BOOLEAN,
                    us \in BOOLEAN, t \in BOOLEAN, g \in BOOLEAN}
    /\ env \in MainEnvs

Spec == Init /\ [][Next]_vars

----------------------------------------------------------------------------
(* What a profile file holds, stated on the file alone.                    *)

\* the 64-bit words of the file, a trailing partial word left out
FileWords(f) == [i \in 1..(Len(f) \div WordSize) |-> FromBytes(SubSeq(f, WordSize * (i - 1) + 1, WordSize * i))]

\* the complete records (weight, pcs, last word) that start at word i + 1,
\* up to and including the first one of weight 0
RECURSIVE RecordsFrom(_, _)
RecordsFrom(ws, i) ==
    IF i + 2 > Len(ws) \/ i + 2 + ws[i + 2] > Len(ws) THEN <<>>
    ELSE LET r == [weight |-> ws[i + 1],
                   pcs |-> SubSeq(ws, i + 3, i + 2 + ws[i + 2]),
                   last |-> i + 2 + ws[i + 2]]
         IN IF r.weight = 0 THEN <<r>> ELSE <<r>> \o RecordsFrom(ws, r.last)

FileRecords(f) == RecordsFrom(FileWords(f), HeaderSlots)

HasTrailer(f) ==
    LET rs == FileRecords(f) IN rs # <<>> /\ rs[Len(rs)].weight = 0

HeaderDeviates(f) ==
    /\ Len(f) >= WordSize * HeaderSlots
    /\ LET h == FileWords(f)
       IN h[1] # 0 \/ h[2] # 3 \/ h[3] # 0 \/ h[5] # 0

----------------------------------------------------------------------------
(* Claims about the parser, checked under SpecParse.                       *)

\* C1: whenever the parser returns, the samples are, in order and with their
\* weights and program counters unchanged, the records before the first
\* record of weight 0; that record has one program counter and is not a
\* sample; proc_mapped_objects is the text of the bytes that follow it.
C1_StopsAtTrailer ==
    Parsed =>
        LET rs == FileRecords(file)
            n == Len(rs) - 1
        IN /\ HasTrailer(file)
           /\ Len(rs[n + 1].pcs) = 1
           /\ Len(stacktraces) = n
           /\ \A i \in 1..n :
                /\ stacktraces[i].sample_count = rs[i].weight
                /\ stacktraces[i].pcs = rs[i].pcs
                /\ stacktraces[i].sample_count # 0
           /\ Utf8Encode(proc_mapped_objects)
                = SubSeq(file, WordSize * rs[n + 1].last + 1, Len(file))

\* two samples of different weight were returned, and a non-empty text
C1_Witness ==
    /\ Parsed
    /\ Len(stacktraces) = 2
    /\ stacktraces[1].sample_count # stacktraces[2].sample_count
    /\ stacktraces[2].pcs # <<>>
    /\ proc_mapped_objects # <<>>

\* C2: a header with count # 0 or slots # 3 or version # 0 or padding # 0
\* makes the parser fail on its header assertion before any record is read,
\* and no result is returned.
C2_BadHeaderRejected ==
    HeaderDeviates(file) =>
        /\ pc \in {"parse_header", "error"}
        /\ stacktraces = <<>>
        /\ pc = "error" => (err = "AssertionError" /\ pos = WordSize * HeaderSlots)

\* a deviating header was rejected with records still unread in the file
C2_Witness ==
    /\ HeaderDeviates(file)
    /\ pc = "error"
    /\ err = "AssertionError"
    /\ Len(file) > pos
    /\ FileWords(file)[5] # 0
    /\ HeaderValidNoPadding(FileWords(file))

\* C3 (as claimed): the parser never returns a result whose
\* sampling_period_in_us is 0.
C3_NoZeroPeriodResult == Parsed => sampling_period_in_us > 0

\* C4: a prefix of a valid profile that ends before the trailer's program
\* counter is complete is never parsed: the parser keeps reading until a
\* short read ends it with struct.error, and returns nothing.
C4_TruncatedFails ==
    file \in TruncatedFiles =>
        /\ pc \in {"parse_header", "parse_record", "error"}
        /\ pc = "error" => err = "struct.error"
        /\ pc # "error" => ENABLED ParserNext

\* a file cut inside a word, after one sample was read, has ended in an error
C4_Witness ==
    /\ file \in TruncatedFiles
    /\ pc = "error"
    /\ Len(stacktraces) >= 1
    /\ Len(file) % WordSize # 0

----------------------------------------------------------------------------
(* C5: what resolution gives for one program counter, stated on the regions. *)

\* the regions whose [start, end) holds p
RegionsOf(p) ==
    {k \in 1..Len(objects) :
        objects[k].start_address <= p /\ p < objects[k].end_address}

\* the entries of the region's symbol list at or below the target of p
AtOrBelow(k, p) ==
    {i \in 1..Len(objects[k].all_symbols_sorted) :
        objects[k].all_symbols_sorted[i].address
            <= p - objects[k].start_address + objects[k].offset + objects[k].obj_start_vma}

\* the name of entry i of region k as the flags ask for it
Rendered(k, i) ==
    LET raw == objects[k].all_symbols_sorted[i].symbol
        name == IF opts.simplify_symbol THEN CleanupSymbol(raw) ELSE raw
    IN IF opts.annotate_libname /\ ~objects[k].is_executable
       THEN name \o S(<<" ", "[">>) \o PathName(objects[k].obj_path) \o S(<<"]">>)
       ELSE name

RightmostAtOrBelow(p) ==
    IF \E k \in RegionsOf(p) : AtOrBelow(k, p) # {}
    THEN LET k == CHOOSE r \in RegionsOf(p) : AtOrBelow(r, p) # {}
             i == CHOOSE m \in AtOrBelow(k, p) : \A n \in AtOrBelow(k, p) : n <= m
         IN Rendered(k, i)
    ELSE UNKNOWN_SYMBOL

\* C5: with non-overlapping regions, once the symbols are resolved every
\* program counter of a sample has the name of the rightmost entry at or
\* below its target in the region that holds it, and '???' when no region
\* holds it or its target is below the region's first symbol.
C5_RightmostSymbolOrUnknown ==
    (pc = "fold" /\ NonOverlapping(objects)) =>
        \A i \in 1..Len(stacktraces) : \A j \in 1..Len(stacktraces[i].pcs) :
            stacktraces[i].symbols.names[j] = RightmostAtOrBelow(stacktraces[i].pcs[j])

\* two regions; one counter resolved to the second of several entries, one
\* inside a region below its first symbol, one outside both regions
C5_Witness ==
    /\ pc = "fold"
    /\ Len(objects) = 2
    /\ \E j \in 1..Len(stacktraces[1].pcs) :
          /\ RegionsOf(stacktraces[1].pcs[j]) # {}
          /\ stacktraces[1].symbols.names[j] = NameOf(2)
    /\ \E j \in 1..Len(stacktraces[1].pcs) :
          /\ RegionsOf(stacktraces[1].pcs[j]) # {}
          /\ stacktraces[1].symbols.names[j] = UNKNOWN_SYMBOL
    /\ \E j \in 1..Len(stacktraces[1].pcs) :
          /\ RegionsOf(stacktraces[1].pcs[j]) = {}
          /\ stacktraces[1].symbols.names[j] = UNKNOWN_SYMBOL

----------------------------------------------------------------------------
(* C6, C7: the fold key and the weight of a sample, stated on the sample.  *)

\* the frames of a key: the names root first, without the longest run of
\* '???' at the leaf end that leaves one frame
KeyFrames(names) ==
    LET frames == [n \in 1..Len(names) |-> names[Len(names) + 1 - n]]
        keep == CHOOSE n \in 1..Len(frames) :
                    /\ \A m \in (n + 1)..Len(frames) : frames[m] = UNKNOWN_SYMBOL
                    /\ n = 1 \/ frames[n] # UNKNOWN_SYMBOL
    IN SubSeq(frames, 1, keep)

FoldKey(i) == Join(KeyFrames(stacktraces[i].symbols.names), S(<<";">>))

\* the samples folded so far that have at least one program counter
Folded == {i \in 1..foldIdx : stacktraces[i].pcs # <<>>}

\* C6: a folded sample with at least one program counter has as its key the
\* resolved names in reversed capture order joined with ';', cut at the leaf
\* end by the longest run of '???' that leaves a frame: the key is in the
\* table, it ends in '???' only when it is one frame, and the frames of the
\* sample folded last are exactly these.
C6_KeyIsTrimmedReversal ==
    pc \in {"fold", "write_text"} =>
        /\ \A i \in Folded :
              /\ Len(stacktraces[i].symbols.names) = Len(stacktraces[i].pcs)
              /\ \E e \in 1..Len(stacks) : stacks[e].key = FoldKey(i)
        /\ (foldIdx \in Folded) =>
              /\ symbols = KeyFrames(stacktraces[foldIdx].symbols.names)
              /\ symbols # <<>>
              /\ symbols[Len(symbols)] = UNKNOWN_SYMBOL => Len(symbols) = 1

\* the sample folded last was captured as ['???', '???', sA]: its frames are
\* [sA]; the sample before it was captured as [sA, sB, sC] and has the key
\* "sC;sB;sA"
C6_Witness ==
    /\ pc = "fold"
    /\ foldIdx = 2
    /\ stacktraces[1].symbols.names = <<NameOf(1), NameOf(2), NameOf(3)>>
    /\ stacks[1].key = Join(<<NameOf(3), NameOf(2), NameOf(1)>>, S(<<";">>))
    /\ stacktraces[2].symbols.names = <<UNKNOWN_SYMBOL, UNKNOWN_SYMBOL, NameOf(1)>>
    /\ symbols = <<NameOf(1)>>

\* what a sample adds to the table
Contribution(i) ==
    IF opts.to_microsecond
    THEN stacktraces[i].sample_count * sampling_period_in_us
    ELSE stacktraces[i].sample_count

RECURSIVE SumOver(_)
SumOver(samples) ==
    IF samples = {} THEN 0
    ELSE LET i == CHOOSE n \in samples : TRUE
         IN Contribution(i) + SumOver(samples \ {i})

RECURSIVE TableSum(_)
TableSum(table) ==
    IF table = <<>> THEN 0 ELSE Head(table).count + TableSum(Tail(table))

\* C7 (as claimed): after process the weights of the table add up to the
\* contributions of all parsed samples.
C7_EverySampleCounted ==
    pc = "write_text" => TableSum(stacks) = SumOver(1..Len(stacktraces))

\* C7 (amended): the samples with at least one program counter are each
\* accumulated into the one entry of their key: every entry holds the sum of
\* the contributions of the folded samples with its key, no key has two
\* entries, and the weights of the table add up to the contributions of the
\* folded samples that have a program counter.
C7_SamplesWithFramesCounted ==
    pc \in {"fold", "write_text"} =>
        /\ \A e \in 1..Len(stacks) :
              /\ stacks[e].count = SumOver({i \in Folded : FoldKey(i) = stacks[e].key})
              /\ \A f \in 1..Len(stacks) : stacks[f].key = stacks[e].key => f = e
        /\ TableSum(stacks) = SumOver(Folded)

\* two samples of weight 5 and 1 with the same key, in microseconds under a
\* period of 1000: one entry of 6000
C7_Witness ==
    /\ pc = "write_text"
    /\ opts.to_microsecond
    /\ Len(stacktraces) = 2
    /\ stacktraces[1].pcs # <<>>
    /\ stacktraces[2].pcs # <<>>
    /\ Len(stacks) = 1
    /\ stacks[1].count = 6000

----------------------------------------------------------------------------
(* C8: the output files of a run that ends in an error.                    *)

\* C8 (as claimed): when a run has ended in a fatal error no output file has
\* been written and none is left behind partly written.
C8_NoOutputAfterFatalError ==
    pc = "error" => disk.text = <<>> /\ disk.svg = <<>>

----------------------------------------------------------------------------
(* C9: the name after simplification, stated with bracket groups.          *)

\* s without the groups of one kind of bracket: a character is kept when it
\* lies in no open group
RECURSIVE WithoutGroups(_, _, _, _, _)
WithoutGroups(s, begin, end, i, depth) ==
    IF i > Len(s) THEN <<>>
    ELSE IF s[i] = begin THEN WithoutGroups(s, begin, end, i + 1, depth + 1)
    ELSE IF s[i] = end THEN WithoutGroups(s, begin, end, i + 1, depth - 1)
    ELSE (IF depth = 0 THEN <<s[i]>> ELSE <<>>) \o WithoutGroups(s, begin, end, i + 1, depth)

\* the brackets of one kind are balanced in s
RECURSIVE Balanced(_, _, _, _, _)
Balanced(s, begin, end, i, depth) ==
    IF i > Len(s) THEN depth = 0
    ELSE IF s[i] = begin THEN Balanced(s, begin, end, i + 1, depth + 1)
    ELSE IF s[i] = end THEN depth > 0 /\ Balanced(s, begin, end, i + 1, depth - 1)
    ELSE Balanced(s, begin, end, i + 1, depth)

WithoutAllGroups(s) ==
    WithoutGroups(
        WithoutGroups(
            WithoutGroups(s, Ord("("), Ord(")"), 1, 0),
            Ord("["), Ord("]"), 1, 0),
        Ord("<"), Ord(">"), 1, 0)

\* C9 (as claimed): with simplification requested, the rendered name of a raw
\* name with balanced brackets is the raw name without its bracket groups and
\* their contents, and without leading and trailing ':'.
C9_BracketGroupsRemoved ==
    (/\ pc = "fold"
     /\ opts.simplify_symbol
     /\ \A b \in {<<"(", ")">>, <<"[", "]">>, <<"<", ">">>} :
           Balanced(objects[1].all_symbols_sorted[1].symbol, Ord(b[1]), Ord(b[2]), 1, 0))
    => stacktraces[1].symbols.names[1]
          = StripChar(WithoutAllGroups(objects[1].all_symbols_sorted[1].symbol), Ord(":"))

----------------------------------------------------------------------------
(* C10: the lines of a memory map that qualify, stated on the text.        *)

Qualifies(line) ==
    LET fields == Split(line)
    IN /\ ~StartsWith(line, BuildMarker)
       /\ Len(fields) = 6
       /\ Contains(fields[2], Ord("x"))
       /\ opts.executable_only => PathName(fields[6]) = PathName(opts.exe)
       /\ (IF PathName(fields[6]) = PathName(opts.exe) THEN opts.exe ELSE fields[6]) \in env.fs

RECURSIVE QualifyingLines(_)
QualifyingLines(lines) ==
    IF lines = <<>> THEN <<>>
    ELSE (IF Qualifies(Head(lines)) THEN <<Head(lines)>> ELSE <<>>) \o QualifyingLines(Tail(lines))

\* C10 (as claimed): for every memory-map text the construction completes
\* without error, and the regions it keeps are, in line order, exactly the
\* qualifying lines; every other line is skipped silently.
C10_ConstructionCompletes ==
    /\ pc # "error"
    /\ pc = "resolve" =>
         LET kept == QualifyingLines(SplitLines(Strip(proc_mapped_objects)))
         IN /\ Len(objects) = Len(kept)
            /\ \A i \in 1..Len(kept) :
                 /\ objects[i].start_address = HexInt(SplitOnce(Split(kept[i])[1], Ord("-"))[1]).value
                 /\ PathName(objects[i].obj_path) = PathName(Split(kept[i])[6])

====
